---------------------------- MODULE Spec2Model ----------------------------
(***************************************************************************)
(* Field matching / coercion engine of go-pdf-filler (package              *)
(* pdfprocessor): PDFForm and HTMLForm registries, NormalizeFieldName,     *)
(* FindMatchingField, ConvertFieldValue, SetField, SetFields, Validate.    *)
(*                                                                         *)
(* Go strings are TLA+ strings; a character is a string of length one.     *)
(* A Go map is a function; ranging over a map visits its keys in an        *)
(* unspecified order, so every loop over a map is a choice over orders.    *)
(***************************************************************************)
EXTENDS Integers, Sequences, FiniteSets, TLC

VARIABLES
    form,      \* "pdf" (PDFForm) or "html" (HTMLForm): the receiver's type
    fields,    \* the receiver's fields map: name -> Field
    options,   \* the receiver's Options (ValidateOnSet, Uploader set or nil)
    call,      \* the last method call and its arguments
    result,    \* what that call returned
    io,        \* the file and network operations that call performed, in order
    input,     \* PDFForm.inputPath and PDFForm.inputURL
    pdfData,   \* HTMLForm.pdfData: the PDF rendered last, or nil
    files,     \* the temporary files that exist: path -> content
    procs      \* the Upload calls in progress when calls run concurrently

vars ==
    <<form, fields, options, call, result, io, input, pdfData, files, procs>>

---------------------------------------------------------------------------
(* Bounds of the model.                                                    *)

\* a generated name is the concatenation of at most MaxPieces pieces
MaxPieces == 3
\* a registry holds at most MaxFields descriptors
MaxFields == 2
\* a SetFields mapping holds at most MaxPairs pairs
MaxPairs == 2

---------------------------------------------------------------------------
(* Package strings, on ASCII text.                                         *)

Char(s, i) == SubSeq(s, i, i)

UpperLetters == "ABCDEFGHIJKLMNOPQRSTUVWXYZ"
LowerLetters == "abcdefghijklmnopqrstuvwxyz"
DigitChars == "0123456789"

CharsOf(s) == {Char(s, i) : i \in 1..Len(s)}

\* unicode.ToLower on one ASCII character
ToLowerChar ==
    [c \in CharsOf(UpperLetters) |->
        Char(LowerLetters, CHOOSE i \in 1..26 : Char(UpperLetters, i) = c)]

\* strings.ToLower
ToLower(s) ==
    LET f[i \in 0..Len(s)] ==
            IF i = 0 THEN ""
            ELSE f[i - 1] \o (IF Char(s, i) \in DOMAIN ToLowerChar
                              THEN ToLowerChar[Char(s, i)] ELSE Char(s, i))
    IN f[Len(s)]

\* unicode.IsSpace on one ASCII character
IsSpace(c) == c \in {" ", "\t", "\n", "\r", "\f"}

\* strings.TrimSpace
TrimSpace(s) ==
    LET keep == {i \in 1..Len(s) : ~IsSpace(Char(s, i))}
    IN IF keep = {} THEN ""
       ELSE SubSeq(s, CHOOSE i \in keep : \A j \in keep : i <= j,
                      CHOOSE i \in keep : \A j \in keep : i >= j)

\* strings.Fields: the maximal runs of non-space characters, in order
RECURSIVE Fields(_)
Fields(s) ==
    LET starts == {i \in 1..Len(s) : ~IsSpace(Char(s, i))}
    IN IF starts = {} THEN <<>>
       ELSE LET b == CHOOSE i \in starts : \A j \in starts : i <= j
                ends == {i \in b..Len(s) :
                            /\ \A j \in b..i : ~IsSpace(Char(s, j))
                            /\ i = Len(s) \/ IsSpace(Char(s, i + 1))}
                e == CHOOSE i \in ends : TRUE
            IN <<SubSeq(s, b, e)>> \o Fields(SubSeq(s, e + 1, Len(s)))

\* strings.Join
RECURSIVE Join(_, _)
Join(elems, sep) ==
    IF elems = <<>> THEN ""
    ELSE IF Len(elems) = 1 THEN elems[1]
    ELSE elems[1] \o sep \o Join(Tail(elems), sep)

\* strings.HasSuffix
HasSuffix(s, suffix) ==
    /\ Len(s) >= Len(suffix)
    /\ SubSeq(s, Len(s) - Len(suffix) + 1, Len(s)) = suffix

\* strings.TrimSuffix
TrimSuffix(s, suffix) ==
    IF HasSuffix(s, suffix) THEN SubSeq(s, 1, Len(s) - Len(suffix)) ELSE s

\* strings.Contains
Contains(s, substr) ==
    \E i \in 1..(Len(s) - Len(substr) + 1) :
        SubSeq(s, i, i + Len(substr) - 1) = substr

\* the mapping function handed to strings.Map by NormalizeFieldName:
\* TRUE when the character is kept
KeepRune(r) ==
    \/ r = " "
    \/ r \in CharsOf(LowerLetters)
    \/ r \in CharsOf(DigitChars)

\* strings.Map with a function that keeps or drops (returns -1)
MapKeep(s) ==
    LET f[i \in 0..Len(s)] ==
            IF i = 0 THEN ""
            ELSE f[i - 1] \o (IF KeepRune(Char(s, i)) THEN Char(s, i) ELSE "")
    IN f[Len(s)]

---------------------------------------------------------------------------
(* PDFForm.NormalizeFieldName                                              *)

NormalizeFieldName(name) ==
    LET lowered   == ToLower(name)
        trimmed   == TrimSpace(lowered)
        collapsed == Join(Fields(trimmed), " ")
        noOpt     == TrimSuffix(collapsed, " optional")
        noReq     == TrimSuffix(noOpt, " required")
    IN MapKeep(noReq)

---------------------------------------------------------------------------
(* Go values held in an interface{}: a dynamic type and a payload.         *)

Nil == [kind |-> "nil", s |-> "", b |-> FALSE, n |-> 0]
StrVal(x) == [kind |-> "string", s |-> x, b |-> FALSE, n |-> 0]
BoolVal(x) == [kind |-> "bool", s |-> "", b |-> x, n |-> 0]
IntVal(x) == [kind |-> "int", s |-> "", b |-> FALSE, n |-> x]

\* strconv.Itoa
RECURSIVE Itoa(_)
Itoa(n) ==
    IF n < 0 THEN "-" \o Itoa(0 - n)
    ELSE IF n < 10 THEN Char(DigitChars, n + 1)
    ELSE Itoa(n \div 10) \o Char(DigitChars, (n % 10) + 1)

\* fmt.Sprintf("%v", value), fmt.Sprint(value)
Sprint(value) ==
    CASE value.kind = "string" -> value.s
      [] value.kind = "bool" -> (IF value.b THEN "true" ELSE "false")
      [] value.kind = "int" -> Itoa(value.n)
      [] value.kind = "nil" -> "<nil>"

\* fmt.Sprintf("%T", value)
TypeName(value) ==
    IF value.kind = "nil" THEN "<nil>" ELSE value.kind

\* A Go error: nil, or an error carrying its message (fmt.Errorf).
NoError == [isNil |-> TRUE, msg |-> ""]
Errorf(msg) == [isNil |-> FALSE, msg |-> msg]

---------------------------------------------------------------------------
(* type FieldType, type Field                                              *)

Text == 0
Boolean == 1
Choice == 2

Field(name, type, opts, required) ==
    [Name |-> name, Type |-> type, Options |-> opts,
     Required |-> required, Value |-> Nil]

---------------------------------------------------------------------------
(* PDFForm.FindMatchingField                                               *)

Found(name) == [name |-> name, found |-> TRUE]
NotFound == [name |-> "", found |-> FALSE]

\* FindMatchingField with the first loop comparing the raw names
FindMatchingField_RawExact(flds, searchName) ==
    LET normalized == NormalizeFieldName(searchName)
        exact == {name \in DOMAIN flds : name = searchName}
        fuzzy == {name \in DOMAIN flds :
                    \/ Contains(NormalizeFieldName(name), normalized)
                    \/ Contains(normalized, NormalizeFieldName(name))}
    IN IF exact # {} THEN {Found(name) : name \in exact}
       ELSE IF fuzzy # {} THEN {Found(name) : name \in fuzzy}
       ELSE {NotFound}

\* FindMatchingField with one loop that already accepts containment
FindMatchingField_AnyQualifying(flds, searchName) ==
    LET normalized == NormalizeFieldName(searchName)
        fuzzy == {name \in DOMAIN flds :
                    \/ Contains(NormalizeFieldName(name), normalized)
                    \/ Contains(normalized, NormalizeFieldName(name))}
    IN IF fuzzy # {} THEN {Found(name) : name \in fuzzy}
       ELSE {NotFound}

\* FindMatchingField with the second loop testing one direction only
FindMatchingField_OneWayContains(flds, searchName) ==
    LET normalized == NormalizeFieldName(searchName)
        exact == {name \in DOMAIN flds :
                    NormalizeFieldName(name) = normalized}
        fuzzy == {name \in DOMAIN flds :
                    Contains(NormalizeFieldName(name), normalized)}
    IN IF exact # {} THEN {Found(name) : name \in exact}
       ELSE IF fuzzy # {} THEN {Found(name) : name \in fuzzy}
       ELSE {NotFound}

\* The set of results a call can return: each loop returns at the first key
\* of the map, in the order the range happens to visit them, that passes
\* its test.
FindMatchingField(flds, searchName) ==
    LET normalized == NormalizeFieldName(searchName)
        exact == {name \in DOMAIN flds :
                    NormalizeFieldName(name) = normalized}
        fuzzy == {name \in DOMAIN flds :
                    \/ Contains(NormalizeFieldName(name), normalized)
                    \/ Contains(normalized, NormalizeFieldName(name))}
    IN IF exact # {} THEN {Found(name) : name \in exact}
       ELSE IF fuzzy # {} THEN {Found(name) : name \in fuzzy}
       ELSE {NotFound}

---------------------------------------------------------------------------
(* isValidOption, PDFForm.ConvertFieldValue                                *)

\* isValidOption comparing without regard to letter case
isValidOption_IgnoreCase(value, opts) ==
    \E i \in 1..Len(opts) : ToLower(opts[i]) = ToLower(value)

isValidOption(value, opts) ==
    \E i \in 1..Len(opts) : opts[i] = value

Converted(val, err) == [val |-> val, err |-> err]

\* ConvertFieldValue with the Boolean case not trimming the string
ConvertFieldValue_NoTrim(flds, name, value) ==
    IF name \notin DOMAIN flds
    THEN Converted(Nil, Errorf("field " \o name \o " not found"))
    ELSE LET field == flds[name] IN
      CASE field.Type = Boolean ->
             IF value.kind = "bool" THEN Converted(value, NoError)
             ELSE IF value.kind = "string"
             THEN LET v == ToLower(value.s) IN
                  IF v = "true" \/ v = "yes" \/ v = "1" \/ v = "on"
                  THEN Converted(BoolVal(TRUE), NoError)
                  ELSE IF v = "false" \/ v = "no" \/ v = "0" \/ v = "off"
                  THEN Converted(BoolVal(FALSE), NoError)
                  ELSE Converted(BoolVal(FALSE),
                         Errorf("invalid boolean value for field " \o name
                                \o ": " \o Sprint(value)))
             ELSE Converted(BoolVal(FALSE),
                    Errorf("unsupported value type for boolean field "
                           \o name \o ": " \o TypeName(value)))
        [] field.Type = Text ->
             IF value.kind = "string" THEN Converted(value, NoError)
             ELSE Converted(StrVal(Sprint(value)), NoError)
        [] field.Type = Choice ->
             LET strVal == Sprint(value) IN
             IF ~isValidOption(strVal, field.Options)
             THEN Converted(Nil, Errorf("invalid option for field " \o name
                                        \o ": " \o strVal))
             ELSE Converted(StrVal(strVal), NoError)
        [] OTHER -> Converted(StrVal(Sprint(value)), NoError)

ConvertFieldValue(flds, name, value) ==
    IF name \notin DOMAIN flds
    THEN Converted(Nil, Errorf("field " \o name \o " not found"))
    ELSE LET field == flds[name] IN
      CASE field.Type = Boolean ->
             IF value.kind = "bool" THEN Converted(value, NoError)
             ELSE IF value.kind = "string"
             THEN LET v == ToLower(TrimSpace(value.s)) IN
                  IF v = "true" \/ v = "yes" \/ v = "1" \/ v = "on"
                  THEN Converted(BoolVal(TRUE), NoError)
                  ELSE IF v = "false" \/ v = "no" \/ v = "0" \/ v = "off"
                  THEN Converted(BoolVal(FALSE), NoError)
                  ELSE Converted(BoolVal(FALSE),
                         Errorf("invalid boolean value for field " \o name
                                \o ": " \o Sprint(value)))
             ELSE Converted(BoolVal(FALSE),
                    Errorf("unsupported value type for boolean field "
                           \o name \o ": " \o TypeName(value)))
        [] field.Type = Text ->
             IF value.kind = "string" THEN Converted(value, NoError)
             ELSE Converted(StrVal(Sprint(value)), NoError)
        [] field.Type = Choice ->
             LET strVal == Sprint(value) IN
             IF ~isValidOption(strVal, field.Options)
             THEN Converted(Nil, Errorf("invalid option for field " \o name
                                        \o ": " \o strVal))
             ELSE Converted(StrVal(strVal), NoError)
        [] OTHER -> Converted(StrVal(Sprint(value)), NoError)

---------------------------------------------------------------------------
(* validateField, SetField, SetFields, Validate of PDFForm and HTMLForm    *)

\* PDFForm.validateField and HTMLForm.validateField (the same code)
validateField(field) ==
    IF field.Required /\ field.Value = Nil
    THEN Errorf("required field " \o field.Name \o " is not set")
    ELSE NoError

Outcome(flds, err) == [fields |-> flds, err |-> err]

\* SetField without the test of the value given to a Boolean field
SetField_NoBoolCheck(flds, opts, name, value) ==
    IF name \notin DOMAIN flds
    THEN Outcome(flds, Errorf("field " \o name \o " not found in form"))
    ELSE LET field == flds[name] IN
      IF field.Type = Text /\ value.kind # "string"
      THEN Outcome(flds, Errorf("field " \o name \o " requires string value"))
      ELSE IF field.Type = Choice /\ value.kind = "string"
              /\ ~isValidOption(value.s, field.Options)
      THEN Outcome(flds, Errorf("invalid option for field " \o name
                                \o ": " \o value.s))
      ELSE IF field.Type = Choice /\ value.kind # "string"
      THEN Outcome(flds, Errorf("field " \o name
                                \o " requires string value from options"))
      ELSE LET stored == [field EXCEPT !.Value = value]
               flds2 == [flds EXCEPT ![name] = stored]
           IN IF opts.ValidateOnSet
              THEN Outcome(flds2, validateField(stored))
              ELSE Outcome(flds2, NoError)

\* SetField adding a field for a name the form does not have
SetField_Upsert(flds, opts, name, value) ==
    IF name \notin DOMAIN flds
    THEN Outcome([n \in DOMAIN flds \cup {name} |->
                     IF n = name
                     THEN [Field(name, Text, <<>>, FALSE) EXCEPT !.Value = value]
                     ELSE flds[n]],
                 NoError)
    ELSE LET field == flds[name] IN
      IF field.Type = Text /\ value.kind # "string"
      THEN Outcome(flds, Errorf("field " \o name \o " requires string value"))
      ELSE IF field.Type = Boolean /\ value.kind # "bool"
      THEN Outcome(flds, Errorf("field " \o name \o " requires boolean value"))
      ELSE IF field.Type = Choice /\ value.kind = "string"
              /\ ~isValidOption(value.s, field.Options)
      THEN Outcome(flds, Errorf("invalid option for field " \o name
                                \o ": " \o value.s))
      ELSE IF field.Type = Choice /\ value.kind # "string"
      THEN Outcome(flds, Errorf("field " \o name
                                \o " requires string value from options"))
      ELSE LET stored == [field EXCEPT !.Value = value]
               flds2 == [flds EXCEPT ![name] = stored]
           IN IF opts.ValidateOnSet
              THEN Outcome(flds2, validateField(stored))
              ELSE Outcome(flds2, NoError)

\* SetField keeping the value a field already has
SetField_KeepFirst(flds, opts, name, value) ==
    IF name \notin DOMAIN flds
    THEN Outcome(flds, Errorf("field " \o name \o " not found in form"))
    ELSE LET field == flds[name] IN
      IF field.Type = Text /\ value.kind # "string"
      THEN Outcome(flds, Errorf("field " \o name \o " requires string value"))
      ELSE IF field.Type = Boolean /\ value.kind # "bool"
      THEN Outcome(flds, Errorf("field " \o name \o " requires boolean value"))
      ELSE IF field.Type = Choice /\ value.kind = "string"
              /\ ~isValidOption(value.s, field.Options)
      THEN Outcome(flds, Errorf("invalid option for field " \o name
                                \o ": " \o value.s))
      ELSE IF field.Type = Choice /\ value.kind # "string"
      THEN Outcome(flds, Errorf("field " \o name
                                \o " requires string value from options"))
      ELSE LET stored == IF field.Value = Nil
                         THEN [field EXCEPT !.Value = value]
                         ELSE field
               flds2 == [flds EXCEPT ![name] = stored]
           IN IF opts.ValidateOnSet
              THEN Outcome(flds2, validateField(stored))
              ELSE Outcome(flds2, NoError)

\* SetField validating the field as it was before the store
SetField_ValidateStale(flds, opts, name, value) ==
    IF name \notin DOMAIN flds
    THEN Outcome(flds, Errorf("field " \o name \o " not found in form"))
    ELSE LET field == flds[name] IN
      IF field.Type = Text /\ value.kind # "string"
      THEN Outcome(flds, Errorf("field " \o name \o " requires string value"))
      ELSE IF field.Type = Boolean /\ value.kind # "bool"
      THEN Outcome(flds, Errorf("field " \o name \o " requires boolean value"))
      ELSE IF field.Type = Choice /\ value.kind = "string"
              /\ ~isValidOption(value.s, field.Options)
      THEN Outcome(flds, Errorf("invalid option for field " \o name
                                \o ": " \o value.s))
      ELSE IF field.Type = Choice /\ value.kind # "string"
      THEN Outcome(flds, Errorf("field " \o name
                                \o " requires string value from options"))
      ELSE LET stored == [field EXCEPT !.Value = value]
               flds2 == [flds EXCEPT ![name] = stored]
           IN IF opts.ValidateOnSet
              THEN Outcome(flds2, validateField(field))
              ELSE Outcome(flds2, NoError)

\* PDFForm.SetField, HTMLForm.SetField
SetField(flds, opts, name, value) ==
    IF name \notin DOMAIN flds
    THEN Outcome(flds, Errorf("field " \o name \o " not found in form"))
    ELSE LET field == flds[name] IN
      IF field.Type = Text /\ value.kind # "string"
      THEN Outcome(flds, Errorf("field " \o name \o " requires string value"))
      ELSE IF field.Type = Boolean /\ value.kind # "bool"
      THEN Outcome(flds, Errorf("field " \o name \o " requires boolean value"))
      ELSE IF field.Type = Choice /\ value.kind = "string"
              /\ ~isValidOption(value.s, field.Options)
      THEN Outcome(flds, Errorf("invalid option for field " \o name
                                \o ": " \o value.s))
      ELSE IF field.Type = Choice /\ value.kind # "string"
      THEN Outcome(flds, Errorf("field " \o name
                                \o " requires string value from options"))
      ELSE LET stored == [field EXCEPT !.Value = value]
               flds2 == [flds EXCEPT ![name] = stored]
           IN IF opts.ValidateOnSet
              THEN Outcome(flds2, validateField(stored))
              ELSE Outcome(flds2, NoError)

\* the orders in which a range over a map with these keys can visit them
Orders(keys) ==
    {order \in [1..Cardinality(keys) -> keys] :
        \A i, j \in 1..Cardinality(keys) : i # j => order[i] # order[j]}

\* PDFForm.SetFields, visiting the pairs in the given order
RECURSIVE SetFieldsPDF(_, _, _, _)
SetFieldsPDF(flds, opts, pairs, order) ==
    IF order = <<>> THEN Outcome(flds, NoError)
    ELSE LET name == Head(order)
             set == SetField(flds, opts, name, pairs[name])
         IN IF ~set.err.isNil
            THEN Outcome(set.fields,
                         Errorf("error setting field " \o name \o ": "
                                \o set.err.msg))
            ELSE SetFieldsPDF(set.fields, opts, pairs, Tail(order))

\* the loop of HTMLForm.SetFields: the registry and the errors slice after
\* visiting the pairs in the given order
RECURSIVE SetFieldsHTMLLoop(_, _, _, _, _)
SetFieldsHTMLLoop(flds, opts, pairs, order, errors) ==
    IF order = <<>> THEN [fields |-> flds, errors |-> errors]
    ELSE LET name == Head(order)
             set == SetField(flds, opts, name, pairs[name])
         IN SetFieldsHTMLLoop(set.fields, opts, pairs, Tail(order),
               IF ~set.err.isNil
               THEN Append(errors, "field '" \o name \o "': " \o set.err.msg)
               ELSE errors)

\* HTMLForm.SetFields
SetFieldsHTML(flds, opts, pairs, order) ==
    LET done == SetFieldsHTMLLoop(flds, opts, pairs, order, <<>>)
    IN IF Len(done.errors) > 0
       THEN Outcome(done.fields,
                    Errorf("failed to set some fields: "
                           \o Join(done.errors, "; ")))
       ELSE Outcome(done.fields, NoError)

\* PDFForm.Validate reporting every field without a value
ValidatePDF_AnyUnset(flds) ==
    LET missing == {name \in DOMAIN flds : flds[name].Value = Nil}
    IN IF missing = {} THEN {NoError}
       ELSE {Errorf("required field " \o flds[name].Name \o " is missing") :
                name \in missing}

\* PDFForm.Validate: the errors a call can return (the range stops at the
\* first required field without a value that it visits)
ValidatePDF(flds) ==
    LET missing == {name \in DOMAIN flds :
                      flds[name].Required /\ flds[name].Value = Nil}
    IN IF missing = {} THEN {NoError}
       ELSE {Errorf("required field " \o flds[name].Name \o " is missing") :
                name \in missing}

\* HTMLForm.Validate
ValidateHTML(flds) ==
    LET failing == {name \in DOMAIN flds : ~validateField(flds[name]).isNil}
    IN IF failing = {} THEN {NoError}
       ELSE {validateField(flds[name]) : name \in failing}

---------------------------------------------------------------------------
(* Package types: UploadConfig, UploadResponse.  Package service: errors,  *)
(* httpUploader.Upload.                                                    *)

UploadConfig(fileName, organizationalID, branchID, createdBy) ==
    [FileName |-> fileName, OrganizationalID |-> organizationalID,
     BranchID |-> branchID, CreatedBy |-> createdBy]

\* UploadConfig.Validate without the test of CreatedBy
ValidateConfig_NoCreator(config) ==
    IF config.FileName = "" THEN Errorf("filename is required")
    ELSE IF config.OrganizationalID = ""
    THEN Errorf("organizational ID is required")
    ELSE IF config.BranchID = "" THEN Errorf("branch ID is required")
    ELSE NoError

\* UploadConfig.Validate
ValidateConfig(config) ==
    IF config.FileName = "" THEN Errorf("filename is required")
    ELSE IF config.OrganizationalID = ""
    THEN Errorf("organizational ID is required")
    ELSE IF config.BranchID = "" THEN Errorf("branch ID is required")
    ELSE IF config.CreatedBy = "" THEN Errorf("creator is required")
    ELSE NoError

\* &ErrInvalidConfig{Message: ...}
ErrInvalidConfig(message) ==
    [isNil |-> FALSE, type |-> "ErrInvalidConfig", Message |-> message]

\* &HTTPError{StatusCode: ..., Message: ...}
HTTPError(statusCode, message) ==
    [isNil |-> FALSE, type |-> "HTTPError",
     StatusCode |-> statusCode, Message |-> message]

\* fmt.Errorf(prefix + "%w", err): the error keeps the one it wraps
Wrap(prefix, err) ==
    [isNil |-> FALSE, type |-> "wrapError", prefix |-> prefix, cause |-> err]

\* HTTPError.Error with the text of 520 left to the default case
HTTPErrorText_No520(e) ==
    CASE e.StatusCode = 401 ->
           "Authentication failed: Bearer token is invalid or expired"
      [] e.StatusCode = 403 ->
           "Authorization failed: Insufficient permissions to upload file"
      [] OTHER ->
           "Upload failed with status " \o Itoa(e.StatusCode) \o ": "
               \o e.Message

\* HTTPError.Error
HTTPErrorText(e) ==
    CASE e.StatusCode = 401 ->
           "Authentication failed: Bearer token is invalid or expired"
      [] e.StatusCode = 403 ->
           "Authorization failed: Insufficient permissions to upload file"
      [] e.StatusCode = 520 ->
           "Server error: Unable to process upload request (possibly due to invalid or expired authentication)"
      [] OTHER ->
           "Upload failed with status " \o Itoa(e.StatusCode) \o ": "
               \o e.Message

\* A response body: its text, and what encoding/json reads in it: a JSON
\* object (its members, as Go values) or something else.
JSONBody(raw, members) == [raw |-> raw, isObject |-> TRUE, members |-> members]
TextBody(raw) == [raw |-> raw, isObject |-> FALSE, members |-> << >>]

\* one member of a JSON object read into a struct field of the given kind:
\* an absent member or null leaves the zero value, a member of another kind
\* is an error
Member(body, key, kind, zero) ==
    IF key \notin DOMAIN body.members \/ body.members[key] = Nil
    THEN [ok |-> TRUE, val |-> zero]
    ELSE IF body.members[key].kind = kind
    THEN [ok |-> TRUE, val |-> body.members[key]]
    ELSE [ok |-> FALSE, val |-> zero]

\* json.Unmarshal(respBody, &errorResponse)
UnmarshalErrorResponse(body) ==
    LET message == Member(body, "message", "string", StrVal(""))
        error == Member(body, "error", "string", StrVal(""))
    IN [ok |-> body.isObject /\ message.ok /\ error.ok,
        Message |-> message.val.s, Error |-> error.val.s]

\* the error message taken from the body, looking at "error" first
ErrorMessage_ErrorFirst(body) ==
    LET errorResponse == UnmarshalErrorResponse(body)
        parsed == IF ~errorResponse.ok THEN ""
                  ELSE IF errorResponse.Error # "" THEN errorResponse.Error
                  ELSE IF errorResponse.Message # ""
                  THEN errorResponse.Message
                  ELSE ""
    IN IF parsed = "" THEN body.raw ELSE parsed

\* the error message httpUploader.Upload takes from the body of a response
\* that is neither 200 nor 201
ErrorMessage(body) ==
    LET errorResponse == UnmarshalErrorResponse(body)
        parsed == IF ~errorResponse.ok THEN ""
                  ELSE IF errorResponse.Message # ""
                  THEN errorResponse.Message
                  ELSE IF errorResponse.Error # "" THEN errorResponse.Error
                  ELSE ""
    IN IF parsed = "" THEN body.raw ELSE parsed

\* json.NewDecoder(...).Decode(&result) for result of type UploadResponse
DecodeUploadResponse(body) ==
    LET fileName == Member(body, "fileName", "string", StrVal(""))
        uri == Member(body, "fileDownloadUri", "string", StrVal(""))
        fileType == Member(body, "fileType", "string", StrVal(""))
        size == Member(body, "size", "int", IntVal(0))
    IN [ok |-> /\ body.isObject
               /\ fileName.ok /\ uri.ok /\ fileType.ok /\ size.ok,
        val |-> [isNil |-> FALSE,
                 FileName |-> fileName.val.s,
                 FileDownloadUri |-> uri.val.s,
                 FileType |-> fileType.val.s,
                 Size |-> size.val.n]]

\* a nil *UploadResponse
NoResponse ==
    [isNil |-> TRUE, FileName |-> "", FileDownloadUri |-> "",
     FileType |-> "", Size |-> 0]

\* what Upload returns, and the operations it performed
Returned(response, err, ops) == [response |-> response, err |-> err, io |-> ops]

\* the request handed to u.client.Do
PostRequest(data, config) ==
    [op |-> "POST", fileName |-> config.FileName, data |-> data,
     organisationalId |-> config.OrganizationalID,
     branchId |-> config.BranchID, createdBy |-> config.CreatedBy]

\* the test of the status code accepting every 2xx status
IsSuccessStatus_Any2xx(statusCode) == statusCode >= 200 /\ statusCode < 300

\* http.StatusOK, http.StatusCreated
IsSuccessStatus(statusCode) == statusCode = 200 \/ statusCode = 201

\* u.client.Do(req) sending the request again after an error
ClientDo_Retry(req, env) ==
    IF env.doErr # ""
    THEN [err |-> Errorf(env.doErr), sent |-> <<req, req>>]
    ELSE [err |-> NoError, sent |-> <<req>>]

\* u.client.Do(req): the environment decides between an error (no
\* connection, cancelled context) and a response
ClientDo(req, env) ==
    IF env.doErr # ""
    THEN [err |-> Errorf(env.doErr), sent |-> <<req>>]
    ELSE [err |-> NoError, sent |-> <<req>>]

\* the error of a failed Decode, with the body cut at its first line
DecodeError_FirstLine(err, body) ==
    [isNil |-> FALSE, type |-> "wrapError",
     prefix |-> "failed to decode successful response: ",
     cause |-> err,
     suffix |-> "\nResponse body: "
                   \o (IF \E i \in 1..Len(body.raw) : Char(body.raw, i) = "\n"
                       THEN SubSeq(body.raw, 1,
                                   (CHOOSE i \in 1..Len(body.raw) :
                                       /\ Char(body.raw, i) = "\n"
                                       /\ \A j \in 1..(i - 1) :
                                             Char(body.raw, j) # "\n") - 1)
                       ELSE body.raw)]

\* fmt.Errorf("failed to decode successful response: %w\nResponse body: %s",
\* err, string(respBody))
DecodeError(err, body) ==
    [isNil |-> FALSE, type |-> "wrapError",
     prefix |-> "failed to decode successful response: ",
     cause |-> err,
     suffix |-> "\nResponse body: " \o body.raw]

\* httpUploader.Upload
UploaderUpload(data, config, env) ==
    LET invalid == ValidateConfig(config)
        req == PostRequest(data, config)
        done == ClientDo(req, env)
        decoded == DecodeUploadResponse(env.body)
    IN IF ~invalid.isNil
       THEN Returned(NoResponse, ErrInvalidConfig(invalid.msg), <<>>)
       ELSE IF env.requestErr # ""
       THEN Returned(NoResponse,
                     Wrap("failed to create request: ", Errorf(env.requestErr)),
                     <<>>)
       ELSE IF ~done.err.isNil
       THEN Returned(NoResponse,
                     Wrap("network error while uploading: ", done.err),
                     done.sent)
       ELSE IF env.bodyErr # ""
       THEN Returned(NoResponse,
                     Wrap("failed to read response body: ", Errorf(env.bodyErr)),
                     done.sent)
       ELSE IF ~IsSuccessStatus(env.status)
       THEN Returned(NoResponse, HTTPError(env.status, ErrorMessage(env.body)),
                     done.sent)
       ELSE IF ~decoded.ok
       THEN Returned(NoResponse,
                     DecodeError(Errorf("json: cannot decode"), env.body),
                     done.sent)
       ELSE Returned(decoded.val, NoError, done.sent)

---------------------------------------------------------------------------
(* PDFForm.Upload, HTMLForm.Upload, GetFields                              *)

\* PDFForm.inputPath and inputURL of a form made by NewForm from a file of
\* the caller, and of no form
Input(inputPath, inputURL) == [inputPath |-> inputPath, inputURL |-> inputURL]

NoInput == Input("", "")

\* HTMLForm.pdfData: nil, or the PDF rendered from the filled HTML
NoPDF == [isNil |-> TRUE, form |-> << >>]

PDFOf(filled) == [isNil |-> FALSE, form |-> filled]

\* the fillpdf.Form built from the fields that have a value
FormData(flds) ==
    [name \in {n \in DOMAIN flds : flds[n].Value # Nil} |->
        IF flds[name].Value.kind = "bool"
        THEN (IF flds[name].Value.b THEN "On" ELSE "Off")
        ELSE Sprint(flds[name].Value)]

\* what HTMLForm.generateFilledHTML writes into the elements of the fields
\* that have a value
FilledHTML(flds) ==
    [name \in {n \in DOMAIN flds : flds[n].Value # Nil} |->
        IF flds[name].Type = Boolean
        THEN (IF flds[name].Value.kind = "bool" /\ flds[name].Value.b
              THEN "checked" ELSE "")
        ELSE Sprint(flds[name].Value)]

tempOutput == "temp_output.pdf"

FileOp(op, path) == [op |-> op, path |-> path]

\* an operation that leaves the file at path with the content
FileWrite(op, path, content) ==
    [op |-> op, path |-> path, content |-> content]

\* the files that exist after the operations: a write creates or replaces
\* its file, os.Remove deletes it
FilesAfter(fs, ops) ==
    LET f[i \in 0..Len(ops)] ==
            IF i = 0 THEN fs
            ELSE IF "content" \in DOMAIN ops[i]
            THEN [path \in DOMAIN f[i - 1] \cup {ops[i].path} |->
                     IF path = ops[i].path THEN ops[i].content
                     ELSE f[i - 1][path]]
            ELSE IF ops[i].op = "os.Remove"
            THEN [path \in DOMAIN f[i - 1] \ {ops[i].path} |-> f[i - 1][path]]
            ELSE f[i - 1]
    IN f[Len(ops)]

\* PDFForm.Upload
UploadPDF(flds, opts, config, env) ==
    LET data == [type |-> "pdf", form |-> FormData(flds)]
        failed == <<FileOp("fillpdf.Fill", tempOutput)>>
        fill == <<FileWrite("fillpdf.Fill", tempOutput, data)>>
        read == <<FileOp("os.ReadFile", tempOutput)>>
        remove == <<FileOp("os.Remove", tempOutput)>>
        up == UploaderUpload(data, config, env)
    IN IF ~opts.Uploader
       THEN Returned(NoResponse, Errorf("uploader service not configured"),
                     <<>>)
       ELSE IF env.fillErr # ""
       THEN Returned(NoResponse,
                     Wrap("failed to fill PDF: ", Errorf(env.fillErr)), failed)
       ELSE IF env.readErr # ""
       THEN Returned(NoResponse,
                     Wrap("failed to read filled PDF: ", Errorf(env.readErr)),
                     fill \o read \o remove)
       ELSE IF ~up.err.isNil
       THEN Returned(NoResponse, Wrap("failed to upload PDF: ", up.err),
                     fill \o read \o remove \o up.io)
       ELSE Returned(up.response, NoError, fill \o read \o remove \o up.io)

\* HTMLForm.Upload: pdf is f.pdfData
UploadHTML(flds, opts, pdf, config, env) ==
    LET data == IF ~pdf.isNil THEN [type |-> "pdf", form |-> pdf.form]
                ELSE [type |-> "html", form |-> FilledHTML(flds)]
        named == IF ~HasSuffix(config.FileName, ".pdf")
                 THEN [config EXCEPT !.FileName = config.FileName \o ".pdf"]
                 ELSE config
        up == UploaderUpload(data, named, env)
    IN IF ~opts.Uploader
       THEN Returned(NoResponse, Errorf("uploader service not configured"),
                     <<>>)
       ELSE IF ~up.err.isNil
       THEN Returned(NoResponse, Wrap("failed to upload form: ", up.err), up.io)
       ELSE Returned(up.response, NoError, up.io)

\* the path os.CreateTemp("", "pdf-form-*.pdf") returns
tmpFileName == "/tmp/pdf-form-1.pdf"

\* what the environment does during NewFormFromURL: for each step that can
\* fail, the text of its error ("" when it succeeds), and the fields pdftk
\* lists in the downloaded file
URLEnv(getErr, createErr, copyErr, loadErr, loaded) ==
    [getErr |-> getErr, createErr |-> createErr, copyErr |-> copyErr,
     loadErr |-> loadErr, loaded |-> loaded]

\* what NewFormFromURL returns (the form's fields, inputPath and inputURL
\* when err is nil) and performed
Constructed(flds, in, err, ops) ==
    [fields |-> flds, input |-> in, err |-> err, io |-> ops]

\* NewFormFromURL
NewFormFromURL(url, env) ==
    LET get == <<FileOp("http.Get", url)>>
        create == <<FileWrite("os.CreateTemp", tmpFileName, "")>>
        copy == <<FileWrite("io.Copy", tmpFileName, "%PDF")>>
        load == <<FileOp("pdftk dump_data_fields", tmpFileName)>>
        remove == <<FileOp("os.Remove", tmpFileName)>>
    IN IF env.getErr # ""
       THEN Constructed(<< >>, NoInput,
                        Wrap("failed to download PDF: ", Errorf(env.getErr)),
                        get)
       ELSE IF env.createErr # ""
       THEN Constructed(<< >>, NoInput,
                        Wrap("failed to create temporary file: ",
                             Errorf(env.createErr)),
                        get \o <<FileOp("os.CreateTemp", "")>>)
       ELSE IF env.copyErr # ""
       THEN Constructed(<< >>, NoInput,
                        Wrap("failed to save PDF to temporary file: ",
                             Errorf(env.copyErr)),
                        get \o create \o <<FileOp("io.Copy", tmpFileName)>>
                            \o remove)
       ELSE IF env.loadErr # ""
       THEN Constructed(<< >>, NoInput,
                        Wrap("failed to load form fields: ",
                             Wrap("pdftk error: ", Errorf(env.loadErr))),
                        get \o create \o copy \o load \o remove)
       ELSE Constructed(env.loaded, Input(tmpFileName, url), NoError,
                        get \o create \o copy \o load)

\* the function NewFormFromURL hands to runtime.SetFinalizer: the files
\* that exist after it ran
Finalizer(in, fs) ==
    IF in.inputURL # "" /\ in.inputPath # ""
    THEN FilesAfter(fs, <<FileOp("os.Remove", in.inputPath)>>)
    ELSE fs

\* the path os.CreateTemp("", "form-*.html") returns
tmpHTMLPath == "/tmp/form-1.html"

\* what the environment does during GeneratePDF: for each step that can
\* fail, the text of its error ("" when it succeeds)
GenEnv(createErr, writeErr, runErr) ==
    [createErr |-> createErr, writeErr |-> writeErr, runErr |-> runErr]

\* what GeneratePDF leaves in f.pdfData, returns and performed
Generated(pdf, err, ops) == [pdfData |-> pdf, err |-> err, io |-> ops]

\* HTMLForm.GeneratePDF
GeneratePDF(flds, pdf, env) ==
    LET filledHTML == FilledHTML(flds)
        create == <<FileWrite("os.CreateTemp", tmpHTMLPath, << >>)>>
        write == <<FileWrite("os.WriteFile", tmpHTMLPath, filledHTML)>>
        run == <<FileOp("chromedp.Run", tmpHTMLPath)>>
        remove == <<FileOp("os.Remove", tmpHTMLPath)>>
    IN IF env.createErr # ""
       THEN Generated(pdf,
                      Wrap("failed to create temporary HTML file: ",
                           Errorf(env.createErr)),
                      <<FileOp("os.CreateTemp", "")>>)
       ELSE IF env.writeErr # ""
       THEN Generated(pdf,
                      Wrap("failed to write HTML to temporary file: ",
                           Errorf(env.writeErr)),
                      create \o <<FileOp("os.WriteFile", tmpHTMLPath)>>
                          \o remove)
       ELSE IF env.runErr # ""
       THEN Generated(pdf,
                      Wrap("failed to generate PDF: ", Errorf(env.runErr)),
                      create \o write \o run \o remove)
       ELSE Generated(PDFOf(filledHTML), NoError,
                      create \o write \o run \o remove)

\* a map as the caller holds it: whether it is the form's own map, and its
\* entries
MapOf(internal, entries) == [internal |-> internal, entries |-> entries]

\* GetFields returning the form's own map
GetFields_NoCopy(flds) == MapOf(TRUE, flds)

\* PDFForm.GetFields, HTMLForm.GetFields: a new map with the same entries
GetFields(flds) == MapOf(FALSE, [name \in DOMAIN flds |-> flds[name]])

\* what the caller does to a map it holds: delete(m, name), or m[name] = a
\* Field of its own making
Delete(entries, name) == [n \in DOMAIN entries \ {name} |-> entries[n]]

Put(entries, name, field) ==
    [n \in DOMAIN entries \cup {name} |->
        IF n = name THEN field ELSE entries[n]]

---------------------------------------------------------------------------
(* Inputs: names built from pieces.                                        *)

NamePieces == {"a", "B", " ", "\t", "!", " required", " Optional"}

RECURSIVE NamesUpTo(_)
NamesUpTo(n) ==
    IF n = 0 THEN {""}
    ELSE LET shorter == NamesUpTo(n - 1)
         IN shorter \cup {s \o p : s \in shorter, p \in NamePieces}

Names == NamesUpTo(MaxPieces)

NoCall == [op |-> "none"]

---------------------------------------------------------------------------
(* Specification of the pure function NormalizeFieldName.                  *)

InitNormalize ==
    /\ form = "pdf"
    /\ fields = << >>
    /\ options = [ValidateOnSet |-> FALSE, Uploader |-> FALSE]
    /\ call = NoCall
    /\ result = ""
    /\ io = <<>>
    /\ input = NoInput
    /\ pdfData = NoPDF
    /\ files = << >>
    /\ procs = << >>

NormalizeCall(name) ==
    /\ call' = [op |-> "NormalizeFieldName", name |-> name]
    /\ result' = NormalizeFieldName(name)
    /\ UNCHANGED <<form, fields, options>>
    /\ io' = <<>>
    /\ UNCHANGED <<input, pdfData, files, procs>>

\* normalising what the previous call returned
NormalizeAgain ==
    /\ call.op = "NormalizeFieldName"
    /\ NormalizeCall(result)

NextNormalize ==
    \/ \E name \in Names : NormalizeCall(name)
    \/ NormalizeAgain

SpecNormalize == InitNormalize /\ [][NextNormalize]_vars

---------------------------------------------------------------------------
(* Specification of FindMatchingField over registries of field names.      *)

\* field names a form may carry
MatchKeys ==
    {"Title Only", "title only", "Title", "Only", "Name of Dependent",
     "Title Only Required", "!!"}

\* names a caller may search for
SearchNames ==
    {"Title Only", "title only", "  TITLE   ONLY ", "Title Only Required",
     "Title", "Name", "Dependent Name", "tle on", "X", "", "Title  Only!"}

InitMatch ==
    /\ form = "pdf"
    /\ \E keys \in SUBSET MatchKeys :
          /\ Cardinality(keys) <= MaxFields
          /\ fields = [name \in keys |-> Field(name, Text, <<>>, FALSE)]
    /\ options = [ValidateOnSet |-> FALSE, Uploader |-> FALSE]
    /\ call = NoCall
    /\ result = NotFound
    /\ io = <<>>
    /\ input = NoInput
    /\ pdfData = NoPDF
    /\ files = << >>
    /\ procs = << >>

FindMatchingFieldCall(searchName) ==
    /\ form = "pdf"
    /\ call' = [op |-> "FindMatchingField", name |-> searchName]
    /\ result' \in FindMatchingField(fields, searchName)
    /\ UNCHANGED <<form, fields, options>>
    /\ io' = <<>>
    /\ UNCHANGED <<input, pdfData, files, procs>>

NextMatch == \E searchName \in SearchNames : FindMatchingFieldCall(searchName)

SpecMatch == InitMatch /\ [][NextMatch]_vars

---------------------------------------------------------------------------
(* Specification of a loaded form and the calls made on it.                *)

\* the descriptors field discovery may have loaded
Catalogue ==
    {Field("Title Only", Boolean, <<>>, TRUE),
     Field("Name", Text, <<>>, TRUE),
     Field("Dropdown2", Choice, <<"Choice 1", "Choice 2">>, FALSE),
     Field("Dropdown3", Choice, <<>>, FALSE)}

\* names and values callers pass
CallNames == {"Title Only", "Name", "Dropdown2", "title only", "X"}

\* the registries of forms whose fields the callers name
Registries ==
    {[name \in {d.Name : d \in ds} |-> CHOOSE d \in ds : d.Name = name] :
        ds \in {c \in SUBSET {d \in Catalogue : d.Name \in CallNames} :
                    Cardinality(c) <= MaxFields}}
CallValues ==
    {BoolVal(TRUE), StrVal("yes"), StrVal("Choice 1"), IntVal(2), Nil}

\* names and values callers pass to ConvertFieldValue
CoerceNames == {"Title Only", "Name", "X"}
CoerceValues == {StrVal("yes"), IntVal(2)}

\* mappings callers pass to SetFields
BatchNames == {"Title Only", "Name", "X"}
BatchValues == {BoolVal(TRUE), IntVal(2)}
Batches ==
    UNION {[keys -> BatchValues] :
              keys \in {k \in SUBSET BatchNames : Cardinality(k) <= MaxPairs}}

\* what the environment does during an upload: for each step that can fail,
\* the text of its error ("" when it succeeds), and the response of the
\* server
Env(fillErr, readErr, requestErr, doErr, bodyErr, status, body) ==
    [fillErr |-> fillErr, readErr |-> readErr, requestErr |-> requestErr,
     doErr |-> doErr, bodyErr |-> bodyErr, status |-> status, body |-> body]

Responds(status, body) == Env("", "", "", "", "", status, body)

UploadedBody ==
    JSONBody("{\"fileName\":\"f.pdf\",\"fileDownloadUri\":\"http://s/f.pdf\",\"fileType\":\"application/pdf\",\"size\":1024}",
             [fileName |-> StrVal("f.pdf"),
              fileDownloadUri |-> StrVal("http://s/f.pdf"),
              fileType |-> StrVal("application/pdf"),
              size |-> IntVal(1024)])

MessageBody ==
    JSONBody("{\"message\":\"quota exceeded\"}",
             [message |-> StrVal("quota exceeded")])

\* upload metadata and environments of the calls of Upload
CallConfigs == {UploadConfig("f.pdf", "54321", "BR-1002", "system")}

CallEnvs == {Responds(201, UploadedBody), Responds(500, MessageBody)}

Init ==
    /\ form \in {"pdf", "html"}
    /\ fields \in Registries
    /\ options \in [ValidateOnSet : BOOLEAN, Uploader : {TRUE}]
    /\ call = NoCall
    /\ result = NoError
    /\ io = <<>>
    /\ input = NoInput
    /\ pdfData = NoPDF
    /\ files = << >>
    /\ procs = << >>

SetFieldCall(name, value) ==
    LET set == SetField(fields, options, name, value) IN
    /\ form \in {"pdf", "html"}
    /\ call' = [op |-> "SetField", name |-> name, value |-> value]
    /\ fields' = set.fields
    /\ result' = set.err
    /\ UNCHANGED <<form, options>>
    /\ io' = <<>>
    /\ UNCHANGED <<input, pdfData, files, procs>>

SetFieldsCall(pairs) ==
    \E order \in Orders(DOMAIN pairs) :
        LET set == IF form = "pdf"
                   THEN SetFieldsPDF(fields, options, pairs, order)
                   ELSE SetFieldsHTML(fields, options, pairs, order) IN
        /\ call' = [op |-> "SetFields", pairs |-> pairs]
        /\ fields' = set.fields
        /\ result' = set.err
        /\ UNCHANGED <<form, options>>
        /\ io' = <<>>
        /\ UNCHANGED <<input, pdfData, files, procs>>

ValidateCall ==
    /\ form \in {"pdf", "html"}
    /\ call' = [op |-> "Validate"]
    /\ result' \in (IF form = "pdf" THEN ValidatePDF(fields)
                    ELSE ValidateHTML(fields))
    /\ UNCHANGED <<form, fields, options>>
    /\ io' = <<>>
    /\ UNCHANGED <<input, pdfData, files, procs>>

\* ConvertFieldValue storing what it converted
ConvertFieldValueCall_Storing(name, value) ==
    LET conv == ConvertFieldValue(fields, name, value) IN
    /\ form = "pdf"
    /\ call' = [op |-> "ConvertFieldValue", name |-> name, value |-> value]
    /\ result' = conv
    /\ fields' = IF conv.err.isNil
                 THEN [fields EXCEPT ![name].Value = conv.val]
                 ELSE fields
    /\ UNCHANGED <<form, options>>
    /\ io' = <<>>
    /\ UNCHANGED <<input, pdfData, files, procs>>

ConvertFieldValueCall(name, value) ==
    /\ form = "pdf"
    /\ call' = [op |-> "ConvertFieldValue", name |-> name, value |-> value]
    /\ result' = ConvertFieldValue(fields, name, value)
    /\ UNCHANGED <<form, fields, options>>
    /\ io' = <<>>
    /\ UNCHANGED <<input, pdfData, files, procs>>

GetFieldsCall ==
    /\ form \in {"pdf", "html"}
    /\ call' = [op |-> "GetFields"]
    /\ result' = GetFields(fields)
    /\ UNCHANGED <<form, fields, options>>
    /\ io' = <<>>
    /\ UNCHANGED <<input, pdfData, files, procs>>

UploadCall(config, env) ==
    LET up == IF form = "pdf" THEN UploadPDF(fields, options, config, env)
              ELSE UploadHTML(fields, options, pdfData, config, env) IN
    /\ form \in {"pdf", "html"}
    /\ call' = [op |-> "Upload", config |-> config, env |-> env]
    /\ result' = [response |-> up.response, err |-> up.err]
    /\ io' = up.io
    /\ files' = FilesAfter(files, up.io)
    /\ UNCHANGED <<form, fields, options, input, pdfData, procs>>

GeneratePDFCall(env) ==
    LET gen == GeneratePDF(fields, pdfData, env) IN
    /\ form = "html"
    /\ call' = [op |-> "GeneratePDF", env |-> env]
    /\ result' = gen.err
    /\ pdfData' = gen.pdfData
    /\ io' = gen.io
    /\ files' = FilesAfter(files, gen.io)
    /\ UNCHANGED <<form, fields, options, input, procs>>

Next ==
    \/ \E name \in CallNames, value \in CallValues : SetFieldCall(name, value)
    \/ \E pairs \in Batches : SetFieldsCall(pairs)
    \/ ValidateCall
    \/ \E name \in CoerceNames, value \in CoerceValues :
          ConvertFieldValueCall(name, value)
    \/ \E name \in CallNames : FindMatchingFieldCall(name)
    \/ GetFieldsCall
    \/ \E config \in CallConfigs, env \in CallEnvs : UploadCall(config, env)

Spec == Init /\ [][Next]_vars

---------------------------------------------------------------------------
(* Specification of ConvertFieldValue over registries and raw values.      *)

ConvertCatalogue ==
    Catalogue \cup {Field("Answer", Choice, <<"true", "2">>, FALSE)}

ConvertNames == CallNames \cup {"Dropdown3", "Answer"}

ConvertValues ==
    {BoolVal(TRUE), BoolVal(FALSE), IntVal(0), IntVal(1), IntVal(2), Nil}
    \cup {StrVal(x) : x \in {"true", "YES", " off ", "maybe", "1", "0", "On",
                             "no", "", "false", "2", "of f", "\tTrue\n",
                             "Choice 1", "choice 1", "Choice 2", "Choice",
                             "John Doe"}}

InitConvert ==
    /\ form = "pdf"
    /\ \E ds \in SUBSET ConvertCatalogue :
          /\ Cardinality(ds) <= MaxFields
          /\ fields = [name \in {d.Name : d \in ds} |->
                          CHOOSE d \in ds : d.Name = name]
    /\ options = [ValidateOnSet |-> FALSE, Uploader |-> FALSE]
    /\ call = NoCall
    /\ result = NoError
    /\ io = <<>>
    /\ input = NoInput
    /\ pdfData = NoPDF
    /\ files = << >>
    /\ procs = << >>

NextConvert ==
    \E name \in ConvertNames, value \in ConvertValues :
        ConvertFieldValueCall(name, value)

SpecConvert == InitConvert /\ [][NextConvert]_vars

---------------------------------------------------------------------------
(* Specification of Upload on a form, with and without an uploader, over   *)
(* upload metadata and environments.                                       *)

FormConfigs ==
    {UploadConfig("f.pdf", "54321", "BR-1002", "system"),
     UploadConfig("report", "54321", "BR-1002", "system"),
     UploadConfig("", "54321", "BR-1002", "system"),
     UploadConfig("f.pdf", "", "BR-1002", "system"),
     UploadConfig("f.pdf", "54321", "BR-1002", "")}

FormEnvs ==
    {Responds(201, UploadedBody),
     Responds(500, MessageBody),
     Env("exit status 1", "", "", "", "", 201, UploadedBody),
     Env("", "no such file", "", "", "", 201, UploadedBody),
     Env("", "", "", "connection refused", "", 0, TextBody(""))}

GenEnvs ==
    {GenEnv("", "", ""), GenEnv("too many open files", "", ""),
     GenEnv("", "no space left on device", ""),
     GenEnv("", "", "context deadline exceeded")}

FormNames == {"Title Only", "Name"}
FormValues == {BoolVal(TRUE), StrVal("yes")}

InitUpload ==
    /\ form \in {"pdf", "html"}
    /\ fields \in Registries
    /\ options \in [ValidateOnSet : {FALSE}, Uploader : BOOLEAN]
    /\ call = NoCall
    /\ result = NoError
    /\ io = <<>>
    /\ input = NoInput
    /\ pdfData = NoPDF
    /\ files = << >>
    /\ procs = << >>

\* the entries a caller writes into the map GetFields returned
CallerFields ==
    {[Field(name, Text, <<>>, FALSE) EXCEPT !.Value = StrVal("changed")] :
        name \in FormNames \cup {"Extra"}}

\* the caller changes the map the last GetFields returned; the form's map
\* changes with it when they are the same map
ChangeReturnedCall(entries) ==
    /\ call.op = "GetFields"
    /\ call' = [op |-> "change returned map"]
    /\ result' = [result EXCEPT !.entries = entries]
    /\ fields' = IF result.internal THEN entries ELSE fields
    /\ UNCHANGED <<form, options>>
    /\ io' = <<>>
    /\ UNCHANGED <<input, pdfData, files, procs>>

NextUpload ==
    \/ \E name \in FormNames, value \in FormValues : SetFieldCall(name, value)
    \/ \E config \in FormConfigs, env \in FormEnvs : UploadCall(config, env)
    \/ \E env \in GenEnvs : GeneratePDFCall(env)
    \/ GetFieldsCall
    \/ \E name \in FormNames : ChangeReturnedCall(Delete(result.entries, name))
    \/ \E field \in CallerFields :
          ChangeReturnedCall(Put(result.entries, field.Name, field))

SpecUpload == InitUpload /\ [][NextUpload]_vars

---------------------------------------------------------------------------
(* Specification of the temporary files: a form made by NewFormFromURL, or *)
(* an HTML form, the calls that create files, and the garbage collector.   *)

FormURL == "https://host/form.pdf"

URLEnvs ==
    {URLEnv("no such host", "", "", "", << >>),
     URLEnv("", "too many open files", "", "", << >>),
     URLEnv("", "", "unexpected EOF", "", << >>),
     URLEnv("", "", "", "exit status 1", << >>)}
    \cup {URLEnv("", "", "", "", loaded) : loaded \in Registries}

InitTemp ==
    /\ \/ form = "none" /\ fields = << >>
       \/ form = "html" /\ fields \in Registries
    /\ options = [ValidateOnSet |-> FALSE, Uploader |-> TRUE]
    /\ call = NoCall
    /\ result = NoError
    /\ io = <<>>
    /\ input = NoInput
    /\ pdfData = NoPDF
    /\ files = << >>
    /\ procs = << >>

NewFormFromURLCall(env) ==
    LET new == NewFormFromURL(FormURL, env) IN
    /\ form = "none"
    /\ call' = [op |-> "NewFormFromURL", env |-> env]
    /\ result' = new.err
    /\ io' = new.io
    /\ files' = FilesAfter(files, new.io)
    /\ form' = IF new.err.isNil THEN "pdf" ELSE form
    /\ fields' = new.fields
    /\ input' = new.input
    /\ UNCHANGED <<options, pdfData, procs>>

\* the caller lets go of its last reference to the form
DropCall ==
    /\ form \in {"pdf", "html"}
    /\ form' = "unreachable"
    /\ call' = [op |-> "drop"]
    /\ result' = NoError
    /\ io' = <<>>
    /\ UNCHANGED <<fields, options, input, pdfData, files, procs>>

\* the garbage collector runs the finalizer of an unreachable form, at a
\* time of its choosing or never
FinalizerCall ==
    /\ form = "unreachable"
    /\ form' = "finalized"
    /\ call' = [op |-> "finalizer"]
    /\ result' = NoError
    /\ io' = <<>>
    /\ files' = Finalizer(input, files)
    /\ UNCHANGED <<fields, options, input, pdfData, procs>>

\* the calls a caller can make on the form it holds
MethodCalls ==
    \/ \E name \in FormNames, value \in FormValues : SetFieldCall(name, value)
    \/ \E config \in CallConfigs, env \in FormEnvs : UploadCall(config, env)
    \/ \E env \in GenEnvs : GeneratePDFCall(env)
    \/ ValidateCall
    \/ GetFieldsCall

NextTemp ==
    \/ \E env \in URLEnvs : NewFormFromURLCall(env)
    \/ MethodCalls
    \/ DropCall
    \/ FinalizerCall

SpecTemp == InitTemp /\ [][NextTemp]_vars

----------------------------------------------------------------------------
(* Specification of two PDFForm.Upload calls on different forms running    *)
(* concurrently in one working directory, each taken step by step.         *)

Procs == {1, 2}

ConcurrentValues == {StrVal("Ann"), StrVal("Bob")}

\* the forms of the two calls: a registry with a "Name" field that has a value
ConcurrentForms ==
    {[r EXCEPT !["Name"].Value = v] :
        r \in {g \in Registries : "Name" \in DOMAIN g}, v \in ConcurrentValues}

ConcurrentConfig == UploadConfig("f.pdf", "54321", "BR-1002", "system")

ConcurrentEnv == Responds(201, UploadedBody)

NoData == [type |-> "none", form |-> << >>]

\* a call of PDFForm.Upload in progress: its position, the receiver's fields,
\* the local variable data, what it handed to the uploader and what it returns
UploadProc(pc, flds, data, sent, response, err) ==
    [pc |-> pc, fields |-> flds, data |-> data, sent |-> sent,
     response |-> response, err |-> err]

InitConcurrent ==
    /\ form = "pdf"
    /\ fields = << >>
    /\ options = [ValidateOnSet |-> FALSE, Uploader |-> TRUE]
    /\ call = NoCall
    /\ result = NoError
    /\ io = <<>>
    /\ input = NoInput
    /\ pdfData = NoPDF
    /\ files = << >>
    /\ procs \in [Procs -> {UploadProc("fill", f, NoData, NoData, NoResponse,
                                       NoError) : f \in ConcurrentForms}]

\* fillpdf.Fill(formData, f.inputPath, tempOutput)
FillStep(p) ==
    LET data == [type |-> "pdf", form |-> FormData(procs[p].fields)]
        ops == <<FileWrite("fillpdf.Fill", tempOutput, data)>> IN
    /\ procs[p].pc = "fill"
    /\ call' = [op |-> "fillpdf.Fill", proc |-> p]
    /\ io' = ops
    /\ files' = FilesAfter(files, ops)
    /\ procs' = [procs EXCEPT ![p].pc = "read"]
    /\ UNCHANGED <<form, fields, options, result, input, pdfData>>

\* os.ReadFile(tempOutput), and the return when it fails
ReadStep(p) ==
    LET read == <<FileOp("os.ReadFile", tempOutput)>>
        remove == <<FileOp("os.Remove", tempOutput)>>
        err == Wrap("failed to read filled PDF: ",
                    Errorf("open temp_output.pdf: no such file or directory"))
    IN
    /\ procs[p].pc = "read"
    /\ call' = [op |-> "os.ReadFile", proc |-> p]
    /\ IF tempOutput \in DOMAIN files
       THEN /\ procs' = [procs EXCEPT ![p].pc = "remove",
                                      ![p].data = files[tempOutput]]
            /\ io' = read
            /\ files' = files
       ELSE /\ procs' = [procs EXCEPT ![p].pc = "done", ![p].err = err]
            /\ io' = read \o remove
            /\ files' = FilesAfter(files, remove)
    /\ UNCHANGED <<form, fields, options, result, input, pdfData>>

\* os.Remove(tempOutput)
RemoveStep(p) ==
    LET ops == <<FileOp("os.Remove", tempOutput)>> IN
    /\ procs[p].pc = "remove"
    /\ call' = [op |-> "os.Remove", proc |-> p]
    /\ io' = ops
    /\ files' = FilesAfter(files, ops)
    /\ procs' = [procs EXCEPT ![p].pc = "upload"]
    /\ UNCHANGED <<form, fields, options, result, input, pdfData>>

\* f.options.Uploader.Upload(ctx, data, config), and the return
UploaderStep(p) ==
    LET up == UploaderUpload(procs[p].data, ConcurrentConfig, ConcurrentEnv) IN
    /\ procs[p].pc = "upload"
    /\ call' = [op |-> "Uploader.Upload", proc |-> p]
    /\ io' = up.io
    /\ procs' = [procs EXCEPT
                    ![p].pc = "done",
                    ![p].sent = procs[p].data,
                    ![p].response = up.response,
                    ![p].err = IF up.err.isNil THEN NoError
                               ELSE Wrap("failed to upload PDF: ", up.err)]
    /\ UNCHANGED <<form, fields, options, result, input, pdfData, files>>

NextConcurrent ==
    \/ \E p \in Procs : FillStep(p)
    \/ \E p \in Procs : ReadStep(p)
    \/ \E p \in Procs : RemoveStep(p)
    \/ \E p \in Procs : UploaderStep(p)

SpecConcurrent == InitConcurrent /\ [][NextConcurrent]_vars

---------------------------------------------------------------------------
(* Specification of httpUploader.Upload called with data, upload metadata  *)
(* and an environment.                                                     *)

UploaderFieldValues == {"", "x"}

UploaderConfigs ==
    {UploadConfig(fileName, organizationalID, branchID, createdBy) :
        fileName \in {"", "f.pdf"}, organizationalID \in UploaderFieldValues,
        branchID \in UploaderFieldValues, createdBy \in UploaderFieldValues}

ValidConfigs == {config \in UploaderConfigs : ValidateConfig(config).isNil}

Statuses == {200, 201, 204, 302, 400, 401, 403, 500, 520}

\* response bodies, with what encoding/json reads in them ("null" is read
\* as an object without members)
Bodies ==
    {UploadedBody,
     MessageBody,
     JSONBody("{\"error\":\"denied\"}", [error |-> StrVal("denied")]),
     JSONBody("{\"message\":\"quota exceeded\",\"error\":\"denied\"}",
              [message |-> StrVal("quota exceeded"),
               error |-> StrVal("denied")]),
     JSONBody("{\"message\":\"\",\"error\":\"denied\"}",
              [message |-> StrVal(""), error |-> StrVal("denied")]),
     JSONBody("{\"message\":5,\"error\":\"denied\"}",
              [message |-> IntVal(5), error |-> StrVal("denied")]),
     JSONBody("{\"fileName\":\"f.pdf\",\"size\":\"big\"}",
              [fileName |-> StrVal("f.pdf"), size |-> StrVal("big")]),
     JSONBody("{}", << >>),
     JSONBody("null", << >>),
     TextBody("Bad Gateway"),
     TextBody("<html>\nBad Gateway"),
     TextBody("")}

\* the environments: the request cannot be built, the exchange fails (no
\* connection, context cancelled), the body cannot be read, or a response
\* arrives
UploaderEnvs ==
    {Env("", "", "", "", "", status, body) :
        status \in Statuses, body \in Bodies}
    \cup {Env("", "", "", doErr, "", 0, TextBody("")) :
             doErr \in {"dial tcp: connection refused", "context canceled"}}
    \cup {Env("", "", "", "", "unexpected EOF", status, TextBody("")) :
             status \in {200, 500}}
    \cup {Env("", "", "invalid URL", "", "", 0, TextBody(""))}

\* the calls: every metadata with a few environments, valid metadata with
\* every environment
UploaderCalls ==
    (UploaderConfigs \X
        {Responds(201, UploadedBody), Responds(401, MessageBody),
         Env("", "", "", "context canceled", "", 0, TextBody(""))})
    \cup (ValidConfigs \X UploaderEnvs)

UploadData == "%PDF-1.4"

InitUploader ==
    /\ form = "pdf"
    /\ fields = << >>
    /\ options = [ValidateOnSet |-> FALSE, Uploader |-> TRUE]
    /\ call = NoCall
    /\ result = NoError
    /\ io = <<>>
    /\ input = NoInput
    /\ pdfData = NoPDF
    /\ files = << >>
    /\ procs = << >>

UploaderUploadCall(config, env) ==
    LET up == UploaderUpload(UploadData, config, env) IN
    /\ call' = [op |-> "httpUploader.Upload", config |-> config, env |-> env]
    /\ result' = [response |-> up.response, err |-> up.err]
    /\ io' = up.io
    /\ UNCHANGED <<input, pdfData, files, procs>>
    /\ UNCHANGED <<form, fields, options>>

\* the caller asks the HTTPError it received for its text
HTTPErrorCall ==
    /\ call.op = "httpUploader.Upload"
    /\ ~result.err.isNil
    /\ "StatusCode" \in DOMAIN result.err
    /\ call' = [op |-> "HTTPError.Error", e |-> result.err, env |-> call.env]
    /\ result' = HTTPErrorText(result.err)
    /\ UNCHANGED <<form, fields, options, io>>
    /\ UNCHANGED <<input, pdfData, files, procs>>

NextUploader ==
    \/ \E c \in UploaderCalls : UploaderUploadCall(c[1], c[2])
    \/ HTTPErrorCall

SpecUploader == InitUploader /\ [][NextUploader]_vars

---------------------------------------------------------------------------
(* Properties.                                                             *)

\* C1: NormalizeFieldName is idempotent: normalising what a call returned
\* gives the same string again.
C1_NormalizeIdempotent ==
    call.op = "NormalizeFieldName" => NormalizeFieldName(result) = result

\* the registry keys whose normal form is the normal form of the name
ExactKeys(name) ==
    {k \in DOMAIN fields : NormalizeFieldName(k) = NormalizeFieldName(name)}

\* the registry keys that qualify for the name by equality or by containment
\* in either direction of the normal forms
QualifyingKeys(name) ==
    {k \in DOMAIN fields :
        LET n == NormalizeFieldName(name)
            nk == NormalizeFieldName(k)
        IN nk = n \/ Contains(nk, n) \/ Contains(n, nk)}

\* C2 as stated: two calls whose search names have the same normal form, a
\* normal form some registry key has, both find the same registry key.
C2_SameCanonicalField ==
    [][(/\ call.op = "FindMatchingField"
        /\ call'.op = "FindMatchingField"
        /\ NormalizeFieldName(call.name) = NormalizeFieldName(call'.name)
        /\ ExactKeys(call.name) # {})
       => (result.found /\ result'.found /\ result.name = result'.name)]_vars

\* C2 amended: when exactly one registry key has the normal form of the
\* search names, two calls whose search names have that normal form both
\* find that key.
C2_SameCanonicalFieldWhenUnique ==
    [][(/\ call.op = "FindMatchingField"
        /\ call'.op = "FindMatchingField"
        /\ NormalizeFieldName(call.name) = NormalizeFieldName(call'.name)
        /\ Cardinality(ExactKeys(call.name)) = 1)
       => (/\ result.found /\ result'.found
           /\ result.name = result'.name
           /\ result.name \in ExactKeys(call.name))]_vars

\* a search name that is no key resolved to the one key of its normal form,
\* next to another key that contains or is contained in it
C2_Witness ==
    /\ call.op = "FindMatchingField"
    /\ call.name = "Title Only Required"
    /\ DOMAIN fields = {"Title Only", "Title"}
    /\ result = Found("Title Only")

\* C3: when some registry key has the normal form of the search name, the
\* key returned has that normal form, whatever other keys qualify by
\* containment.
C3_ExactMatchPriority ==
    (call.op = "FindMatchingField" /\ ExactKeys(call.name) # {})
        => (result.found /\ result.name \in ExactKeys(call.name))

\* an exact match returned while another key qualified by containment only
C3_Witness ==
    /\ call.op = "FindMatchingField"
    /\ result.found
    /\ result.name \in ExactKeys(call.name)
    /\ QualifyingKeys(call.name) \ ExactKeys(call.name) # {}

\* C4: the call returns not-found exactly when no registry key qualifies by
\* equality or containment, and a found name is a registry key that
\* qualifies.
C4_NotFoundIffNoneQualifies ==
    call.op = "FindMatchingField"
        => /\ result.found <=> QualifyingKeys(call.name) # {}
           /\ result.found => result.name \in QualifyingKeys(call.name)
           /\ ~result.found => result.name = ""

\* a key found only because its normal form is part of the search name's
C4_Witness ==
    /\ call.op = "FindMatchingField"
    /\ result.found
    /\ ExactKeys(call.name) = {}
    /\ Contains(NormalizeFieldName(call.name), NormalizeFieldName(result.name))
    /\ ~Contains(NormalizeFieldName(result.name), NormalizeFieldName(call.name))

\* the last call converted a value for an existing field of this type
ConvertedFor(type) ==
    /\ call.op = "ConvertFieldValue"
    /\ call.name \in DOMAIN fields
    /\ fields[call.name].Type = type

\* C5: on a Boolean field a bool is returned unchanged, a string is trimmed
\* and lowercased and then true/yes/1/on give true and false/no/0/off give
\* false, and every other string or kind of input gives an error.
C5_BooleanCoercion ==
    ConvertedFor(Boolean) =>
        LET v == call.value
            t == ToLower(TrimSpace(v.s))
        IN CASE v.kind = "bool" -> result = Converted(v, NoError)
             [] v.kind = "string" /\ t \in {"true", "yes", "1", "on"} ->
                    result = Converted(BoolVal(TRUE), NoError)
             [] v.kind = "string" /\ t \in {"false", "no", "0", "off"} ->
                    result = Converted(BoolVal(FALSE), NoError)
             [] OTHER -> ~result.err.isNil /\ result.val # BoolVal(TRUE)

\* a string with surrounding blanks converted to false
C5_Witness ==
    /\ ConvertedFor(Boolean)
    /\ call.value = StrVal(" off ")
    /\ result = Converted(BoolVal(FALSE), NoError)

\* C6: on a Choice field the call succeeds exactly when the display form of
\* the input is, letter for letter, one of the field's options, and then
\* returns that string; otherwise it fails with an invalid-option error.
C6_ChoiceCoercion ==
    ConvertedFor(Choice) =>
        LET opts == fields[call.name].Options
            shown == Sprint(call.value)
        IN IF \E i \in 1..Len(opts) : opts[i] = shown
           THEN result = Converted(StrVal(shown), NoError)
           ELSE /\ ~result.err.isNil
                /\ Contains(result.err.msg, "invalid option")
                /\ result.val = Nil

\* an input that differs from an option in letter case only is refused
C6_Witness ==
    /\ ConvertedFor(Choice)
    /\ call.value = StrVal("choice 1")
    /\ fields[call.name].Options = <<"Choice 1", "Choice 2">>
    /\ ~result.err.isNil

\* C7: a call of ConvertFieldValue leaves the registry as it was, and the
\* registry changes in calls of SetField and SetFields only.
C7_CoercionHasNoSideEffect ==
    [][/\ call'.op = "ConvertFieldValue" => fields' = fields
       /\ fields' # fields => call'.op \in {"SetField", "SetFields"}]_vars

\* a conversion that succeeded for a field that still has no value
C7_Witness ==
    /\ call.op = "ConvertFieldValue"
    /\ call.name \in DOMAIN fields
    /\ result.err.isNil
    /\ result.val # Nil
    /\ fields[call.name].Value = Nil

\* the descriptors that are required and have no value
MissingRequired ==
    {name \in DOMAIN fields :
        fields[name].Required /\ fields[name].Value = Nil}

\* C8: Validate returns nil exactly when every required descriptor has a
\* value, and otherwise one error that names a descriptor that is required
\* and has no value.
C8_ValidateRequired ==
    call.op = "Validate"
        => /\ result.isNil <=> MissingRequired = {}
           /\ ~result.isNil =>
                \E name \in MissingRequired :
                    result.msg \in
                        {"required field " \o fields[name].Name \o " is missing",
                         "required field " \o fields[name].Name \o " is not set"}

\* of two required fields one was set, and Validate names the other
C8_Witness ==
    /\ call.op = "Validate"
    /\ DOMAIN fields = {"Title Only", "Name"}
    /\ fields["Name"].Value # Nil
    /\ fields["Title Only"].Value = Nil
    /\ result = Errorf("required field Title Only is missing")

\* the pairs of the mapping that SetField refuses
FailedPairs(pairs) ==
    {name \in DOMAIN pairs :
        ~SetField(fields, options, name, pairs[name]).err.isNil}

\* C9: the error SetFields returns mentions every pair that failed, and it
\* is nil exactly when no pair failed.
C9_SetFieldsAggregates ==
    call.op = "SetFields"
        => /\ result.isNil <=> FailedPairs(call.pairs) = {}
           /\ \A name \in FailedPairs(call.pairs) : Contains(result.msg, name)

\* C10: SetField resolves the name through FindMatchingField: it returns
\* field-not-found only when FindMatchingField finds nothing for the name.
C10_SetFieldResolvesName ==
    (/\ form = "pdf"
     /\ call.op = "SetField"
     /\ ~result.isNil
     /\ Contains(result.msg, "not found in form"))
        => FindMatchingField(fields, call.name) = {NotFound}


\* C11: SetField stores ConvertFieldValue's conversion of the raw value
\* whenever that conversion succeeds for the named field, and then returns
\* no error.
C11_SetFieldCoerces ==
    (/\ call.op = "SetField"
     /\ call.name \in DOMAIN fields
     /\ ConvertFieldValue(fields, call.name, call.value).err.isNil)
    => /\ result.isNil
       /\ fields[call.name].Value =
              ConvertFieldValue(fields, call.name, call.value).val

\* a value of the type a field's validation asks for
WellTyped(field) ==
    \/ field.Value = Nil
    \/ field.Type = Text /\ field.Value.kind = "string"
    \/ field.Type = Boolean /\ field.Value.kind = "bool"
    \/ /\ field.Type = Choice
       /\ field.Value.kind = "string"
       /\ \E i \in 1..Len(field.Options) : field.Options[i] = field.Value.s

\* C12: after any calls of SetField and SetFields, failing or not, every
\* field that has a value holds a string if it is Text, a bool if it is
\* Boolean, and one of its options if it is Choice.
C12_TypedValues == \A name \in DOMAIN fields : WellTyped(fields[name])

\* a failing call has been made and fields of the three types hold values
C12_Witness ==
    /\ call.op \in {"SetField", "SetFields"}
    /\ ~result.isNil
    /\ \E name \in DOMAIN fields :
          fields[name].Type = Choice /\ fields[name].Value # Nil
    /\ \E name \in DOMAIN fields :
          fields[name].Type = Boolean /\ fields[name].Value # Nil

\* the registry without the values
Shape(flds) ==
    [name \in DOMAIN flds |->
        [Name |-> flds[name].Name, Type |-> flds[name].Type,
         Options |-> flds[name].Options, Required |-> flds[name].Required]]

\* C13: no call adds or removes a key of the registry or changes a name, a
\* type, the options or the required flag of a field; a value changes only
\* in a call of SetField or SetFields.
C13_ShapeFixed ==
    [][/\ Shape(fields') = Shape(fields)
       /\ fields' # fields => call'.op \in {"SetField", "SetFields"}]_vars

\* an upload went through on a form that holds a value
C13_Witness ==
    /\ call.op = "Upload"
    /\ result.err.isNil
    /\ \E name \in DOMAIN fields : fields[name].Value # Nil


\* the kinds of error Upload returns
IsConfigError(err) ==
    ~err.isNil /\ "type" \in DOMAIN err /\ err.type = "ErrInvalidConfig"

IsHTTPError(err) ==
    ~err.isNil /\ "type" \in DOMAIN err /\ err.type = "HTTPError"

IsWrapped(err, prefix) ==
    /\ ~err.isNil
    /\ "type" \in DOMAIN err
    /\ err.type = "wrapError"
    /\ err.prefix = prefix

\* the requests sent, among the operations performed
Requests(ops) == {i \in DOMAIN ops : ops[i].op = "POST"}

SomeEmpty(config) ==
    \/ config.FileName = ""
    \/ config.OrganizationalID = ""
    \/ config.BranchID = ""
    \/ config.CreatedBy = ""

\* C14: httpUploader.Upload given upload metadata with an empty FileName,
\* OrganizationalID, BranchID or CreatedBy returns no response and a
\* configuration error and sends no request; given four non-empty fields it
\* never returns a configuration error.
C14_ConfigValidated ==
    call.op = "httpUploader.Upload" =>
        IF SomeEmpty(call.config)
        THEN /\ IsConfigError(result.err)
             /\ result.response.isNil
             /\ Requests(io) = {}
        ELSE ~IsConfigError(result.err)

\* only CreatedBy is empty, and the server would have accepted the upload
C14_Witness ==
    /\ call.op = "httpUploader.Upload"
    /\ call.config.CreatedBy = ""
    /\ call.config.FileName # ""
    /\ call.config.OrganizationalID # ""
    /\ call.config.BranchID # ""
    /\ call.env.status = 201
    /\ IsConfigError(result.err)
    /\ io = <<>>

\* C15: Upload on a form that has an uploader, given invalid upload
\* metadata, returns the configuration error and has performed no file
\* operation and sent no request.
C15_ConfigErrorBeforeIO ==
    (/\ call.op = "Upload"
     /\ options.Uploader
     /\ SomeEmpty(call.config))
    => /\ ~result.err.isNil
       /\ "cause" \in DOMAIN result.err
       /\ IsConfigError(result.err.cause)
       /\ io = <<>>

\* the server's response reached the uploader: the metadata is valid and no
\* step failed before the status code is looked at
ResponseRead(config, env) ==
    /\ ~SomeEmpty(config)
    /\ env.requestErr = ""
    /\ env.doErr = ""
    /\ env.bodyErr = ""

\* the members of a JSON body have the kinds of the fields they are read into
KindsFit(body, kinds) ==
    /\ body.isObject
    /\ \A key \in DOMAIN kinds \cap DOMAIN body.members :
          body.members[key] = Nil \/ body.members[key].kind = kinds[key]

UploadResponseKinds ==
    [fileName |-> "string", fileDownloadUri |-> "string",
     fileType |-> "string", size |-> "int"]

\* C16: httpUploader.Upload returns a response and a nil error exactly
\* when the exchange completed with status 200 or 201 and the body decodes
\* into UploadResponse; the response then has the body's fileName,
\* fileDownloadUri, fileType and size. In every other case the response is
\* nil and the error is not.
C16_SuccessExactly ==
    call.op = "httpUploader.Upload" =>
        IF /\ ResponseRead(call.config, call.env)
           /\ call.env.status \in {200, 201}
           /\ KindsFit(call.env.body, UploadResponseKinds)
        THEN LET members == call.env.body.members IN
             /\ result.err.isNil
             /\ ~result.response.isNil
             /\ "fileName" \in DOMAIN members
                    => result.response.FileName = members["fileName"].s
             /\ "fileDownloadUri" \in DOMAIN members
                    => result.response.FileDownloadUri
                           = members["fileDownloadUri"].s
             /\ "fileType" \in DOMAIN members
                    => result.response.FileType = members["fileType"].s
             /\ "size" \in DOMAIN members
                    => result.response.Size = members["size"].n
        ELSE result.response.isNil /\ ~result.err.isNil

\* the 201 response with size 1024 has been returned
C16_Witness ==
    /\ call.op = "httpUploader.Upload"
    /\ call.env.status = 201
    /\ result.err.isNil
    /\ result.response.Size = 1024
    /\ result.response.FileName = "f.pdf"

ErrorResponseKinds == [message |-> "string", error |-> "string"]

\* a non-empty string member of a body whose members fit
MemberText(body, key) ==
    IF /\ KindsFit(body, ErrorResponseKinds)
       /\ key \in DOMAIN body.members
       /\ body.members[key] # Nil
    THEN body.members[key].s
    ELSE ""

\* C17: for every status other than 200 and 201, httpUploader.Upload
\* returns an HTTPError with that status whose Message is the body's
\* "message" if the body parses and it is not empty, else its "error" if
\* not empty, else the text of the body.
C17_HTTPErrorMessage ==
    (/\ call.op = "httpUploader.Upload"
     /\ ResponseRead(call.config, call.env)
     /\ call.env.status \notin {200, 201})
    => /\ IsHTTPError(result.err)
       /\ result.response.isNil
       /\ result.err.StatusCode = call.env.status
       /\ result.err.Message =
             IF MemberText(call.env.body, "message") # ""
             THEN MemberText(call.env.body, "message")
             ELSE IF MemberText(call.env.body, "error") # ""
             THEN MemberText(call.env.body, "error")
             ELSE call.env.body.raw

\* a body with an empty "message" and an "error" gave the error's text
C17_Witness ==
    /\ call.op = "httpUploader.Upload"
    /\ call.env.status = 500
    /\ call.env.body.isObject
    /\ "message" \in DOMAIN call.env.body.members
    /\ call.env.body.members["message"] = StrVal("")
    /\ IsHTTPError(result.err)
    /\ result.err.Message = "denied"

\* C18: the text of the HTTPError returned for status 401 is the fixed
\* authentication text whatever the body holds, likewise for 403 and 520
\* with their fixed texts; for every other status the text carries the
\* status and the message taken from the body.
C18_FixedTexts ==
    call.op = "HTTPError.Error" =>
        /\ call.e.StatusCode = call.env.status
        /\ call.env.status = 401 =>
              result = "Authentication failed: Bearer token is invalid or expired"
        /\ call.env.status = 403 =>
              result = "Authorization failed: Insufficient permissions to upload file"
        /\ call.env.status = 520 =>
              result = "Server error: Unable to process upload request (possibly due to invalid or expired authentication)"
        /\ call.env.status \notin {401, 403, 520} =>
              /\ result = "Upload failed with status "
                             \o Itoa(call.env.status) \o ": " \o call.e.Message
              /\ call.e.Message = ErrorMessage(call.env.body)

\* the text of a 520 whose body is JSON with a message of its own
C18_Witness ==
    /\ call.op = "HTTPError.Error"
    /\ call.env.status = 520
    /\ call.env.body = MessageBody
    /\ call.e.Message = "quota exceeded"
    /\ ~Contains(result, "quota exceeded")

\* C19: one call of Upload sends at most one request, whatever its outcome.
C19_NoRetry == Cardinality(Requests(io)) <= 1

\* the exchange failed and one request was sent
C19_Witness ==
    /\ call.op = "httpUploader.Upload"
    /\ call.env.doErr # ""
    /\ ~result.err.isNil
    /\ Cardinality(Requests(io)) = 1

\* what tells one kind of error from another: its type and, for an error
\* built by fmt.Errorf, the text in front of what it wraps
ErrorKind(err) ==
    IF "type" \notin DOMAIN err THEN <<"errorString", "">>
    ELSE IF err.type = "wrapError" THEN <<err.type, err.prefix>>
    ELSE <<err.type, "">>

\* C20: a failed exchange and a cancelled context give errors of different
\* kinds, neither of them an HTTPError, and never a response.
C20_DistinctKinds ==
    (/\ call.op = "httpUploader.Upload"
     /\ ~SomeEmpty(call.config)
     /\ call.env.requestErr = ""
     /\ call.env.doErr = "context canceled")
    => /\ ~result.err.isNil
       /\ result.response.isNil
       /\ ~IsHTTPError(result.err)
       /\ ErrorKind(result.err) #
             ErrorKind(UploaderUpload(UploadData, call.config,
                          [call.env EXCEPT
                              !.doErr = "dial tcp: connection refused"]).err)


\* C21: when the status is 200 or 201 and the body does not decode into
\* UploadResponse, httpUploader.Upload returns no response and the decode
\* error, which is no HTTPError and ends with the whole text of the body.
C21_DecodeErrorCarriesBody ==
    (/\ call.op = "httpUploader.Upload"
     /\ ResponseRead(call.config, call.env)
     /\ call.env.status \in {200, 201}
     /\ ~KindsFit(call.env.body, UploadResponseKinds))
    => /\ result.response.isNil
       /\ ~IsHTTPError(result.err)
       /\ IsWrapped(result.err, "failed to decode successful response: ")
       /\ result.err.suffix = "\nResponse body: " \o call.env.body.raw

\* a 200 whose body is two lines of text
C21_Witness ==
    /\ call.op = "httpUploader.Upload"
    /\ call.env.status = 200
    /\ call.env.body.raw = "<html>\nBad Gateway"
    /\ IsWrapped(result.err, "failed to decode successful response: ")


\* the value is one SetField's type switch accepts for the field
Accepted(field, value) ==
    \/ field.Type = Text /\ value.kind = "string"
    \/ field.Type = Boolean /\ value.kind = "bool"
    \/ /\ field.Type = Choice
       /\ value.kind = "string"
       /\ \E i \in 1..Len(field.Options) : field.Options[i] = value.s

\* C23: a successful SetField leaves the written value in its field and
\* every other field as it was; SetFields leaves in each field either what
\* it held or the value the mapping gives it, the latter in every field of
\* the mapping when it returns no error; no other call changes a value. So
\* each field holds its most recent successful write, or nothing.
C23_LastWriteWins ==
    [][/\ (call'.op = "SetField" /\ result'.isNil) =>
             /\ call'.name \in DOMAIN fields
             /\ fields' = [fields EXCEPT ![call'.name].Value = call'.value]
       /\ call'.op = "SetFields" =>
             \A name \in DOMAIN fields :
                /\ fields'[name].Value # fields[name].Value =>
                      /\ name \in DOMAIN call'.pairs
                      /\ fields'[name].Value = call'.pairs[name]
                      /\ Accepted(fields[name], call'.pairs[name])
                /\ (result'.isNil /\ name \in DOMAIN call'.pairs) =>
                      fields'[name].Value = call'.pairs[name]
       /\ call'.op \notin {"SetField", "SetFields"} => fields' = fields]_vars

\* a second string has been written to a Text field while another field
\* keeps the value of an earlier write
C23_Witness ==
    /\ call.op = "SetField"
    /\ result.isNil
    /\ call.name = "Name"
    /\ fields["Name"].Value = StrVal("Choice 1")
    /\ \E name \in DOMAIN fields \ {"Name"} : fields[name].Value # Nil

\* C25: when SetFields has returned, with or without an error, every pair
\* of the mapping whose name is a field and whose value that field accepts
\* is stored.
C25_PartialApplication ==
    call.op = "SetFields" =>
        \A name \in DOMAIN call.pairs \cap DOMAIN fields :
            Accepted(fields[name], call.pairs[name])
                => fields[name].Value = call.pairs[name]

\* C26: a SetField that returns an error leaves the registry as it was,
\* with and without ValidateOnSet, and a SetField whose value the field
\* accepts returns no error.
C26_FailingSetFieldChangesNothing ==
    [][call'.op = "SetField" =>
          /\ ~result'.isNil => fields' = fields
          /\ (/\ call'.name \in DOMAIN fields
              /\ Accepted(fields[call'.name], call'.value)) => result'.isNil]_vars

\* with ValidateOnSet, a value has been stored in a required field and a
\* call with a value of the wrong kind has failed after it
C26_Witness ==
    /\ call.op = "SetField"
    /\ options.ValidateOnSet
    /\ ~result.isNil
    /\ call.name \in DOMAIN fields
    /\ fields[call.name].Required
    /\ fields[call.name].Value # Nil


\* C30: a search name whose normal form is empty is resolved only to a key
\* whose normal form is empty too, and a key whose normal form is empty is
\* returned only for such a search name.
C30_EmptyNormalFormMatchesNothing ==
    (call.op = "FindMatchingField" /\ result.found) =>
        ((NormalizeFieldName(call.name) = "")
            <=> (NormalizeFieldName(result.name) = ""))


\* C27: the file name of every request sent by Upload on a form ends in
\* ".pdf".
C27_FileNameHasExtension ==
    call.op = "Upload" =>
        \A i \in Requests(io) : HasSuffix(io[i].fileName, ".pdf")

\* C24: deleting, adding or replacing entries of the map GetFields
\* returned leaves the form's fields, which are all that a later GetFields,
\* Validate or Upload reads, as they were.
C24_GetFieldsCopies ==
    [][call'.op = "change returned map" => fields' = fields]_vars

\* the caller has overwritten, in the returned map, the entry of a field
\* that holds a value in the form
C24_Witness ==
    /\ call.op = "change returned map"
    /\ \E name \in DOMAIN fields \cap DOMAIN result.entries :
          /\ fields[name].Value # Nil
          /\ result.entries[name].Value = StrVal("changed")
          /\ fields[name].Value # StrVal("changed")


\* C28: what HTMLForm.Upload sends is made from the values the fields hold
\* when Upload is called.
C28_UploadSendsCurrentValues ==
    (call.op = "Upload" /\ form = "html") =>
        \A i \in Requests(io) : io[i].data.form = FilledHTML(fields)


\* C22: when NewFormFromURL has returned an error the downloaded file does
\* not exist; when it has returned a form, some call on the form removes
\* that file; when Upload or GeneratePDF has returned, the file it filled
\* or wrote does not exist.
C22_TemporaryFilesReleased ==
    /\ (call.op = "NewFormFromURL" /\ ~result.isNil) => DOMAIN files = {}
    /\ (call.op = "NewFormFromURL" /\ result.isNil) =>
          ENABLED (MethodCalls /\ input.inputPath \notin DOMAIN files')
    /\ call.op = "Upload" => tempOutput \notin DOMAIN files
    /\ call.op = "GeneratePDF" => tmpHTMLPath \notin DOMAIN files

\* C29: when two PDFForm.Upload calls on different forms run concurrently in
\* one working directory, a call that has returned has not failed and has
\* handed its uploader the bytes of its own form filled with its own values.
C29_ConcurrentUploadsDoNotInterfere ==
    \A p \in DOMAIN procs :
        procs[p].pc = "done" =>
            /\ procs[p].err.isNil
            /\ procs[p].sent =
                  [type |-> "pdf", form |-> FormData(procs[p].fields)]

=============================================================================
